---- MODULE Spec2Model ----
(***************************************************************************)
(* Model of the 3D view program (src/main.go): the polygons, the scene     *)
(* (Space) with its cumulative rotation matrix, the depth sort and the     *)
(* draw pass, and the driving loop of run().                               *)
(*                                                                         *)
(* Numbers.  The program computes in float64.  A float64 is modelled as a  *)
(* fixed-point number: the integer n stands for n / Scale, sums are exact  *)
(* and every product, quotient and square root is rounded to the nearest   *)
(* representable value.  Rounding is therefore part of the model, as it is *)
(* part of the program, with a coarser grid.                               *)
(*                                                                         *)
(* Memory.  A Go slice is a reference to an array.  heap is the sequence   *)
(* of the live point arrays: the arrays of the scene's polygons in         *)
(* AddObject order, followed by the array of the polygon the caller holds  *)
(* (the result of the last NewPolygon or Transform), if any.  A polygon is *)
(* a record [Points |-> index into heap, Color |-> colour].                *)
(***************************************************************************)
EXTENDS Integers, Sequences, FiniteSets, TLC

VARIABLES
    Matrix,     \* Space.Matrix
    Objects,    \* Space.Objects
    heap,       \* the live point arrays
    ret,        \* the last call and what it produced; for Draw, the calls
                \* the drawing context received (imd) and the local slice
                \* `polygons` after the sort
    hist,       \* history: the matrices passed to Rotate so far
    added,      \* history: the polygons passed to AddObject so far
    pc,         \* position of run()
    closed,     \* the window was closed by the user
    frame,      \* number of loop iterations started by run()
    trace       \* history: the steps run() performed

vars == <<Matrix, Objects, heap, ret, hist, added,
          pc, closed, frame, trace>>

-----------------------------------------------------------------------------
(* Bounds *)

MaxObjects == 2
MaxRot == 3
MaxFrames == 12

-----------------------------------------------------------------------------
(* float64 arithmetic *)

Scale == 100

\* a / b rounded to the nearest integer, halves away from zero (b > 0)
RoundDiv(a, b) ==
    IF a >= 0 THEN (2 * a + b) \div (2 * b)
              ELSE -((2 * (-a) + b) \div (2 * b))

FMul(a, b) == RoundDiv(a * b, Scale)

FDiv(a, b) == RoundDiv(a * Scale, b)

RECURSIVE SqrtSearch(_, _, _)
\* the largest r in lo..hi with r * r <= x
SqrtSearch(x, lo, hi) ==
    IF lo >= hi THEN lo
    ELSE LET mid == (lo + hi + 1) \div 2
         IN IF mid * mid <= x THEN SqrtSearch(x, mid, hi)
                              ELSE SqrtSearch(x, lo, mid - 1)

\* math.Sqrt
FSqrt(a) ==
    LET x == a * Scale
        r == SqrtSearch(x, 0, 46340)
    IN IF x - r * r > r THEN r + 1 ELSE r

\* math.Pow(a, 2)
FPow2(a) == FMul(a, a)

\* the float64 of an integer literal
F(n) == n * Scale

\* Angles are named by their value in milliradians.
RunAngleX == -330
RunAngleY == 33

\* math.Cos
Cos(a) ==
    CASE a = 0 -> 100
      [] a = 33 -> 100
      [] a = -33 -> 100
      [] a = 330 -> 95
      [] a = -330 -> 95

\* math.Sin
Sin(a) ==
    CASE a = 0 -> 0
      [] a = 33 -> 3
      [] a = -33 -> -3
      [] a = 330 -> 32
      [] a = -330 -> -32

-----------------------------------------------------------------------------
(* Geometry *)

Point(x, y, z) == [X |-> F(x), Y |-> F(y), Z |-> F(z)]

Vector(x, y, z) == [X |-> x, Y |-> y, Z |-> z]

Axes == {"X", "Y", "Z"}

matrixMultiply(m, p) ==
    [X |-> FMul(p.X, m.X.X) + FMul(p.Y, m.Y.X) + FMul(p.Z, m.Z.X),
     Y |-> FMul(p.X, m.X.Y) + FMul(p.Y, m.Y.Y) + FMul(p.Z, m.Z.Y),
     Z |-> FMul(p.X, m.X.Z) + FMul(p.Y, m.Y.Z) + FMul(p.Z, m.Z.Z)]

RECURSIVE SumCoord(_, _, _)
SumCoord(points, c, i) ==
    IF i > Len(points) THEN 0 ELSE points[i][c] + SumCoord(points, c, i + 1)

computeCentroid(points) ==
    LET n == F(Len(points))
    IN [X |-> FDiv(SumCoord(points, "X", 1), n),
        Y |-> FDiv(SumCoord(points, "Y", 1), n),
        Z |-> FDiv(SumCoord(points, "Z", 1), n)]

euclideanDistance(a, b) ==
    FSqrt(FPow2(b.X - a.X) + FPow2(b.Y - a.Y) + FPow2(b.Z - a.Z))

-----------------------------------------------------------------------------
(* Polygon *)

\* the nil *Polygon
NoPolygon == [Points |-> 0, Color |-> "none"]

\* the points of polygon p in heap hp
PointsOf(hp, p) == hp[p.Points]

\* NewPolygon with the length test off by one
NewPolygonOffByOne(hp, ref, color) ==
    IF Len(hp[ref]) <= 3
    THEN [panic |-> TRUE, poly |-> NoPolygon]
    ELSE [panic |-> FALSE, poly |-> [Points |-> ref, Color |-> color]]

\* NewPolygon(points, color), points being the slice at index ref of hp
NewPolygon(hp, ref, color) ==
    IF Len(hp[ref]) < 3
    THEN [panic |-> TRUE, poly |-> NoPolygon]
    ELSE [panic |-> FALSE, poly |-> [Points |-> ref, Color |-> color]]

\* Transform writing the new points into the receiver's array
TransformInPlace(hp, p, m) ==
    [heap |-> [hp EXCEPT ![p.Points] =
                  [i \in 1..Len(hp[p.Points]) |->
                      matrixMultiply(m, hp[p.Points][i])]],
     poly |-> [Points |-> p.Points, Color |-> p.Color]]

\* p.Transform(m): the heap with the new array, and the new polygon
Transform(hp, p, m) ==
    LET newPoints ==
            [i \in 1..Len(hp[p.Points]) |->
                LET point == hp[p.Points][i]
                IN [X |-> FMul(point.X, m.X.X) + FMul(point.Y, m.Y.X)
                            + FMul(point.Z, m.Z.X),
                    Y |-> FMul(point.X, m.X.Y) + FMul(point.Y, m.Y.Y)
                            + FMul(point.Z, m.Z.Y),
                    Z |-> FMul(point.X, m.X.Z) + FMul(point.Y, m.Y.Z)
                            + FMul(point.Z, m.Z.Z)]]
    IN [heap |-> Append(hp, newPoints),
        poly |-> [Points |-> Len(hp) + 1, Color |-> p.Color]]

\* build without the vertex that closes the outline
buildOpen(hp, p) ==
    [i \in 1..Len(hp[p.Points]) |->
        <<"Push", hp[p.Points][i].X, hp[p.Points][i].Y, p.Color>>]
    \o <<<<"Polygon", 1>>, <<"Draw">>>>

\* p.build(imd, win): the calls the drawing context receives
build(hp, p) ==
    [i \in 1..Len(hp[p.Points]) |->
        <<"Push", hp[p.Points][i].X, hp[p.Points][i].Y, p.Color>>]
    \o <<<<"Push", hp[p.Points][1].X, hp[p.Points][1].Y, p.Color>>,
         <<"Polygon", 1>>,
         <<"Draw">>>>

-----------------------------------------------------------------------------
(* ByCentroidDistance and sort.Sort *)

ByLen(ps) == Len(ps)

Swap(ps, i, j) == [ps EXCEPT ![i] = ps[j], ![j] = ps[i]]

Less(ps, refPoint, i, j) ==
    LET centroidI == computeCentroid(ps[i])
        centroidJ == computeCentroid(ps[j])
    IN euclideanDistance(centroidI, refPoint)
         > euclideanDistance(centroidJ, refPoint)

RECURSIVE SortInner(_, _, _)
SortInner(ps, refPoint, j) ==
    IF j > 1 /\ Less(ps, refPoint, j, j - 1)
    THEN SortInner(Swap(ps, j, j - 1), refPoint, j - 1)
    ELSE ps

RECURSIVE SortOuter(_, _, _)
SortOuter(ps, refPoint, i) ==
    IF i > ByLen(ps) THEN ps
    ELSE SortOuter(SortInner(ps, refPoint, i), refPoint, i + 1)

\* sort.Sort(ByCentroidDistance{ps, refPoint}): insertion sort, which is what
\* the library runs on a slice of at most 12 elements
SortByCentroidDistance(ps, refPoint) == SortOuter(ps, refPoint, 2)

-----------------------------------------------------------------------------
(* Space *)

NewSpace ==
    [Matrix |-> [X |-> Vector(F(1), 0, 0),
                 Y |-> Vector(0, F(1), 0),
                 Z |-> Vector(0, 0, F(1))],
     Objects |-> <<>>]

\* Rotate with the operands exchanged: rotationMatrix x s.Matrix
RotateReversed(M, R) ==
    [r \in Axes |-> [c \in Axes |->
        FMul(R[r].X, M.X[c]) + FMul(R[r].Y, M.Y[c]) + FMul(R[r].Z, M.Z[c])]]

\* s.Rotate(rotationMatrix): the new s.Matrix
Rotate(M, R) ==
    [X |-> [X |-> FMul(M.X.X, R.X.X) + FMul(M.X.Y, R.Y.X) + FMul(M.X.Z, R.Z.X),
            Y |-> FMul(M.X.X, R.X.Y) + FMul(M.X.Y, R.Y.Y) + FMul(M.X.Z, R.Z.Y),
            Z |-> FMul(M.X.X, R.X.Z) + FMul(M.X.Y, R.Y.Z) + FMul(M.X.Z, R.Z.Z)],
     Y |-> [X |-> FMul(M.Y.X, R.X.X) + FMul(M.Y.Y, R.Y.X) + FMul(M.Y.Z, R.Z.X),
            Y |-> FMul(M.Y.X, R.X.Y) + FMul(M.Y.Y, R.Y.Y) + FMul(M.Y.Z, R.Z.Y),
            Z |-> FMul(M.Y.X, R.X.Z) + FMul(M.Y.Y, R.Y.Z) + FMul(M.Y.Z, R.Z.Z)],
     Z |-> [X |-> FMul(M.Z.X, R.X.X) + FMul(M.Z.Y, R.Y.X) + FMul(M.Z.Z, R.Z.X),
            Y |-> FMul(M.Z.X, R.X.Y) + FMul(M.Z.Y, R.Y.Y) + FMul(M.Z.Z, R.Z.Y),
            Z |-> FMul(M.Z.X, R.X.Z) + FMul(M.Z.Y, R.Y.Z) + FMul(M.Z.Z, R.Z.Z)]]

\* the rotationMatrix of RotateX(angle)
RotationX(angle) ==
    [X |-> Vector(F(1), 0, 0),
     Y |-> Vector(0, Cos(angle), Sin(angle)),
     Z |-> Vector(0, -Sin(angle), Cos(angle))]

\* the rotationMatrix of RotateY with cosine and sine exchanged
RotationYSwapped(angle) ==
    [X |-> Vector(Sin(angle), 0, -Cos(angle)),
     Y |-> Vector(0, F(1), 0),
     Z |-> Vector(Cos(angle), 0, Sin(angle))]

\* the rotationMatrix of RotateY(angle)
RotationY(angle) ==
    [X |-> Vector(Cos(angle), 0, -Sin(angle)),
     Y |-> Vector(0, F(1), 0),
     Z |-> Vector(Sin(angle), 0, Cos(angle))]

\* the rotationMatrix of RotateZ(angle)
RotationZ(angle) ==
    [X |-> Vector(Cos(angle), Sin(angle), 0),
     Y |-> Vector(-Sin(angle), Cos(angle), 0),
     Z |-> Vector(0, 0, F(1))]

RotateX(M, angle) == Rotate(M, RotationX(angle))

RotateY(M, angle) == Rotate(M, RotationY(angle))

RotateZ(M, angle) == Rotate(M, RotationZ(angle))

\* AddObject putting the polygon in front
AddObjectInFront(Objs, p) == <<p>> \o Objs

\* s.AddObject(p): the new s.Objects
AddObject(Objs, p) == Append(Objs, p)

referencePoint == Point(0, 0, 200)

\* make([]Point, 3): three zero points
ZeroPoints == [i \in 1..3 |-> [X |-> 0, Y |-> 0, Z |-> 0]]

\* the slice `polygons` of Draw before the sort
DrawPointSets(M, Objs, hp) ==
    [i \in 1..Len(Objs) |->
        ZeroPoints \o [k \in 1..Len(hp[Objs[i].Points]) |->
                          matrixMultiply(M, hp[Objs[i].Points][k])]]

RECURSIVE DrawBuild(_, _, _, _)
\* the second loop of Draw, from object i on
DrawBuild(M, Objs, hp, i) ==
    IF i > Len(Objs) THEN <<>>
    ELSE LET t == Transform(hp, Objs[i], M)
         IN build(t.heap, t.poly) \o DrawBuild(M, Objs, hp, i + 1)

\* the objects in the order the sort gives their point sets
InDepthOrder(M, Objs, hp) ==
    LET sets == DrawPointSets(M, Objs, hp)
        sorted == SortByCentroidDistance(sets, referencePoint)
    IN [k \in 1..Len(Objs) |->
           Objs[CHOOSE j \in 1..Len(Objs) : sets[j] = sorted[k]]]

\* Draw building the polygons in the sorted order
DrawInSortedOrder(M, Objs, hp) ==
    [Matrix |-> M,
     Objects |-> Objs,
     heap |-> hp,
     polygons |-> SortByCentroidDistance(DrawPointSets(M, Objs, hp),
                                         referencePoint),
     imd |-> DrawBuild(M, InDepthOrder(M, Objs, hp), hp, 1)]

\* Draw sorting s.Objects itself
DrawSortsObjects(M, Objs, hp) ==
    [Matrix |-> M,
     Objects |-> InDepthOrder(M, Objs, hp),
     heap |-> hp,
     polygons |-> SortByCentroidDistance(DrawPointSets(M, Objs, hp),
                                         referencePoint),
     imd |-> DrawBuild(M, Objs, hp, 1)]

\* s.Draw(imd, win): the scene, the heap, the sorted local slice and the
\* calls received by imd when Draw returns
Draw(M, Objs, hp) ==
    [Matrix |-> M,
     Objects |-> Objs,
     heap |-> hp,
     polygons |-> SortByCentroidDistance(DrawPointSets(M, Objs, hp),
                                         referencePoint),
     imd |-> DrawBuild(M, Objs, hp, 1)]

-----------------------------------------------------------------------------
(* The callers' inputs *)

Colors == {"Black", "Aliceblue"}

Angles == {0, RunAngleX, RunAngleY}

\* point sequences of length 0 to 4; the centroids of the two valid ones lie
\* at distances 10 and 50 from the reference point
PointLists ==
    { <<>>,
      <<Point(1, 2, 3)>>,
      <<Point(1, 2, 3), Point(-4, 5, 6)>>,
      <<Point(-30, -10, 210), Point(30, -10, 210), Point(0, 20, 210)>>,
      <<Point(-20, -20, 250), Point(20, -20, 250), Point(20, 20, 250),
        Point(-20, 20, 250)>> }

ValidPointLists == {points \in PointLists : Len(points) >= 3}

\* a matrix that is no rotation, for Rotate and Transform
Shear == [X |-> Vector(F(1), F(1), 0),
          Y |-> Vector(0, F(1), 0),
          Z |-> Vector(0, F(-1), F(1))]

\* the point a caller writes into a polygon it was handed
Scribble == Point(7, 7, 7)

\* the arrays that are still referenced once the caller drops its polygon
Live(hp, Objs) == SubSeq(hp, 1, Len(Objs))

-----------------------------------------------------------------------------
(* The scene and its initial state *)

InitScene ==
    /\ Matrix = NewSpace.Matrix
    /\ Objects = NewSpace.Objects
    /\ heap = <<>>
    /\ ret = [op |-> "NewSpace"]
    /\ hist = <<>>
    /\ added = <<>>
    /\ closed = FALSE
    /\ frame = 0
    /\ trace = <<>>

Init == InitScene /\ pc = "api"

runVars == <<pc, closed, frame, trace>>

-----------------------------------------------------------------------------
(* The operations, called in any order *)

\* p := NewPolygon([]Point{...}, color)
NewPolygonCall(points, color) ==
    /\ pc = "api"
    /\ LET hp == Append(Live(heap, Objects), points)
           r == NewPolygon(hp, Len(hp), color)
       IN /\ heap' = IF r.panic THEN Live(heap, Objects) ELSE hp
          /\ ret' = [op |-> "NewPolygon", points |-> points, color |-> color,
                     panic |-> r.panic, poly |-> r.poly]
    /\ UNCHANGED <<Matrix, Objects, hist, added, runVars>>

\* space.AddObject(p), p the polygon NewPolygon just returned
AddObjectCall ==
    /\ pc = "api"
    /\ ret.op = "NewPolygon"
    /\ ~ret.panic
    /\ Len(Objects) < MaxObjects
    /\ Objects' = AddObject(Objects, ret.poly)
    /\ added' = Append(added, [Points |-> PointsOf(heap, ret.poly),
                               Color |-> ret.poly.Color])
    /\ ret' = [op |-> "AddObject", poly |-> ret.poly]
    /\ UNCHANGED <<Matrix, heap, hist, runVars>>

RotateStep(name, angle, delta, M) ==
    /\ pc = "api"
    /\ Len(hist) < MaxRot
    /\ Matrix' = M
    /\ hist' = Append(hist, delta)
    /\ heap' = Live(heap, Objects)
    /\ ret' = [op |-> name, angle |-> angle, delta |-> delta]
    /\ UNCHANGED <<Objects, added, runVars>>

\* space.Rotate(delta)
RotateCall(delta) == RotateStep("Rotate", 0, delta, Rotate(Matrix, delta))

\* space.RotateX(angle)
RotateXCall(angle) ==
    RotateStep("RotateX", angle, RotationX(angle), RotateX(Matrix, angle))

\* space.RotateY(angle)
RotateYCall(angle) ==
    RotateStep("RotateY", angle, RotationY(angle), RotateY(Matrix, angle))

\* space.RotateZ(angle)
RotateZCall(angle) ==
    RotateStep("RotateZ", angle, RotationZ(angle), RotateZ(Matrix, angle))

\* space.Draw(imdraw.New(nil), win)
DrawCall ==
    /\ pc = "api"
    /\ \E d \in {Draw(Matrix, Objects, Live(heap, Objects))} :
          /\ Matrix' = d.Matrix
          /\ Objects' = d.Objects
          /\ heap' = d.heap
          /\ ret' = [op |-> "Draw", imd |-> d.imd, polygons |-> d.polygons]
    /\ UNCHANGED <<hist, added, runVars>>

\* q := space.Objects[i].Transform(m)
TransformCall(i, m) ==
    /\ pc = "api"
    /\ i \in 1..Len(Objects)
    /\ \E t \in {Transform(Live(heap, Objects), Objects[i], m)} :
          /\ heap' = t.heap
          /\ ret' = [op |-> "Transform", recv |-> i, m |-> m, poly |-> t.poly]
    /\ UNCHANGED <<Matrix, Objects, hist, added, runVars>>

\* q.Points[j] = Scribble, q the polygon Transform just returned
WriteCall(j) ==
    /\ pc = "api"
    /\ ret.op = "Transform"
    /\ j \in 1..Len(PointsOf(heap, ret.poly))
    /\ heap' = [heap EXCEPT ![ret.poly.Points][j] = Scribble]
    /\ ret' = [op |-> "Write", recv |-> ret.recv, m |-> ret.m,
               poly |-> ret.poly, index |-> j]
    /\ UNCHANGED <<Matrix, Objects, hist, added, runVars>>

\* the matrices a caller passes to Transform
TransformMatrices ==
    {NewSpace.Matrix, RotationX(RunAngleX), RotationY(RunAngleY), Shear}

\* Polygons are built, added to the scene, transformed and the results
\* written to.
NextPolygon ==
    \/ \E points \in PointLists, color \in Colors : NewPolygonCall(points, color)
    \/ AddObjectCall
    \/ \E i \in 1..MaxObjects, m \in TransformMatrices : TransformCall(i, m)
    \/ \E j \in 1..4 : WriteCall(j)

SpecPolygon == Init /\ [][NextPolygon]_vars

\* The scene is rotated.
NextRotate ==
    \/ RotateCall(Shear)
    \/ \E angle \in Angles : RotateXCall(angle)
    \/ \E angle \in Angles : RotateYCall(angle)
    \/ \E angle \in Angles : RotateZCall(angle)

SpecRotate == Init /\ [][NextRotate]_vars

\* A scene is set up, rotated and drawn.
NextScene ==
    \/ \E points \in ValidPointLists, color \in Colors :
          NewPolygonCall(points, color)
    \/ AddObjectCall
    \/ RotateXCall(RunAngleX)
    \/ RotateYCall(RunAngleY)
    \/ DrawCall

SpecScene == Init /\ [][NextScene]_vars

-----------------------------------------------------------------------------
(* run() *)

p1 == Point(-50, 0, -50)
p2 == Point(0, 100, 0)
p3 == Point(50, 0, -50)
p4 == Point(-50, 0, 50)
p5 == Point(50, 0, 50)

\* the arguments of the eight space.AddObject(NewPolygon(...)) statements
SceneDefs ==
    << [points |-> <<Point(-300, 0, 0), Point(-300, 0, 0), Point(300, 0, 0)>>,
        color |-> "Black"],
       [points |-> <<Point(0, -300, 0), Point(0, -300, 0), Point(0, 300, 0)>>,
        color |-> "Black"],
       [points |-> <<Point(0, 0, 300), Point(0, 0, 300), Point(0, 0, -300)>>,
        color |-> "Black"],
       [points |-> <<p1, p4, p5>>, color |-> "Black"],
       [points |-> <<p1, p2, p4>>, color |-> "Aliceblue"],
       [points |-> <<p2, p3, p5>>, color |-> "Aliceblue"],
       [points |-> <<p1, p2, p3>>, color |-> "Aliceblue"],
       [points |-> <<p2, p4, p5>>, color |-> "Aliceblue"] >>

\* the loop with the rotation before the draw
FollowingRotateFirst(stmt) ==
    CASE stmt = "Closed" -> "Clear"
      [] stmt = "Clear" -> "RotateY"
      [] stmt = "RotateY" -> "Draw"
      [] stmt = "Draw" -> "Update"
      [] stmt = "Update" -> "Sleep"
      [] stmt = "Sleep" -> "Closed"

\* the statement run() executes after stmt in the loop
Following(stmt) ==
    CASE stmt = "Closed" -> "Clear"
      [] stmt = "Clear" -> "Draw"
      [] stmt = "Draw" -> "RotateY"
      [] stmt = "RotateY" -> "Update"
      [] stmt = "Update" -> "Sleep"
      [] stmt = "Sleep" -> "Closed"

Event(step) == [step |-> step, Matrix |-> Matrix, closed |-> closed]

InitRun == InitScene /\ pc = "NewWindow"

sceneVars == <<Matrix, Objects, heap, ret, hist, added>>

\* win, err := pixelgl.NewWindow(cfg); if err != nil { panic(err) }
RunNewWindow ==
    /\ pc = "NewWindow"
    /\ \E err \in BOOLEAN : pc' = IF err THEN "panicked" ELSE "AddObject"
    /\ trace' = Append(trace, Event("NewWindow"))
    /\ UNCHANGED <<sceneVars, closed, frame>>

\* the next space.AddObject(NewPolygon(...)) statement
RunAddObject ==
    /\ pc = "AddObject"
    /\ LET def == SceneDefs[Len(Objects) + 1]
           hp == Append(heap, def.points)
           r == NewPolygon(hp, Len(hp), def.color)
       IN IF r.panic
          THEN /\ pc' = "panicked"
               /\ UNCHANGED <<Objects, heap, added>>
          ELSE /\ heap' = hp
               /\ Objects' = AddObject(Objects, r.poly)
               /\ added' = Append(added, [Points |-> PointsOf(hp, r.poly),
                                          Color |-> r.poly.Color])
               /\ pc' = IF Len(Objects) + 1 = Len(SceneDefs)
                        THEN "RotateX" ELSE "AddObject"
    /\ ret' = [op |-> "AddObject"]
    /\ trace' = Append(trace, Event("AddObject"))
    /\ UNCHANGED <<Matrix, hist, closed, frame>>

\* space.RotateX(-0.33)
RunRotateX ==
    /\ pc = "RotateX"
    /\ Matrix' = RotateX(Matrix, RunAngleX)
    /\ hist' = Append(hist, RotationX(RunAngleX))
    /\ ret' = [op |-> "RotateX"]
    /\ trace' = Append(trace, Event("RotateX"))
    /\ pc' = "Closed"
    /\ UNCHANGED <<Objects, heap, added, closed, frame>>

\* for !win.Closed()
RunClosed ==
    /\ pc = "Closed"
    /\ closed \/ frame < MaxFrames
    /\ pc' = IF closed THEN "done" ELSE Following("Closed")
    /\ frame' = IF closed THEN frame ELSE frame + 1
    /\ trace' = Append(trace, Event("Closed"))
    /\ UNCHANGED <<sceneVars, closed>>

\* win.Clear(colornames.Dimgray)
RunClear ==
    /\ pc = "Clear"
    /\ trace' = Append(trace, Event("Clear"))
    /\ pc' = Following("Clear")
    /\ UNCHANGED <<sceneVars, closed, frame>>

\* imd := imdraw.New(nil); space.Draw(imd, win)
RunDraw ==
    /\ pc = "Draw"
    /\ \E d \in {Draw(Matrix, Objects, heap)} :
          /\ Matrix' = d.Matrix
          /\ Objects' = d.Objects
          /\ heap' = d.heap
          /\ ret' = [op |-> "Draw", imd |-> d.imd, polygons |-> d.polygons]
    /\ trace' = Append(trace, Event("Draw"))
    /\ pc' = Following("Draw")
    /\ UNCHANGED <<hist, added, closed, frame>>

\* space.RotateY(0.033)
RunRotateY ==
    /\ pc = "RotateY"
    /\ Matrix' = RotateY(Matrix, RunAngleY)
    /\ hist' = Append(hist, RotationY(RunAngleY))
    /\ ret' = [op |-> "RotateY"]
    /\ trace' = Append(trace, Event("RotateY"))
    /\ pc' = Following("RotateY")
    /\ UNCHANGED <<Objects, heap, added, closed, frame>>

\* win.Update()
RunUpdate ==
    /\ pc = "Update"
    /\ trace' = Append(trace, Event("Update"))
    /\ pc' = Following("Update")
    /\ UNCHANGED <<sceneVars, closed, frame>>

\* time.Sleep(FrameLength)
RunSleep ==
    /\ pc = "Sleep"
    /\ trace' = Append(trace, Event("Sleep"))
    /\ pc' = Following("Sleep")
    /\ UNCHANGED <<sceneVars, closed, frame>>

\* the user closes the window
CloseWindow ==
    /\ pc \notin {"api", "NewWindow", "panicked", "done"}
    /\ ~closed
    /\ closed' = TRUE
    /\ UNCHANGED <<sceneVars, pc, frame, trace>>

NextRun ==
    \/ RunNewWindow
    \/ RunAddObject
    \/ RunRotateX
    \/ RunClosed
    \/ RunClear
    \/ RunDraw
    \/ RunRotateY
    \/ RunUpdate
    \/ RunSleep
    \/ CloseWindow

SpecRun == InitRun /\ [][NextRun]_vars

-----------------------------------------------------------------------------
(* Claims about polygons, checked under SpecPolygon *)

\* the polygon at position i of the scene, by value
Stored(i) == [Points |-> PointsOf(heap, Objects[i]), Color |-> Objects[i].Color]

\* C1: NewPolygon panics and yields no polygon for a point sequence of length
\* 0, 1 or 2; for a sequence of length 3 or more it succeeds and the polygon
\* holds exactly the supplied points, in the supplied order, with the
\* supplied colour.
C1_NewPolygon ==
    ret.op = "NewPolygon" =>
        IF Len(ret.points) \in {0, 1, 2}
        THEN ret.panic /\ ret.poly = NoPolygon
        ELSE /\ ~ret.panic
             /\ ret.poly # NoPolygon
             /\ PointsOf(heap, ret.poly) = ret.points
             /\ ret.poly.Color = ret.color

\* a 3-point polygon was built and added, and a 2-point sequence was refused
C1_Witness ==
    /\ Len(Objects) >= 1
    /\ Len(Stored(1).Points) = 3
    /\ ret.op = "NewPolygon"
    /\ Len(ret.points) = 2
    /\ ret.panic

\* C7: Transform(m) returns a new polygon with as many points as the
\* receiver, its i-th point being applyMatrix(m, i-th receiver point), and the
\* receiver's colour; the receiver's points and colour are what they were
\* before the call, also after the caller has written to the returned
\* polygon's points.
C7_Transform ==
    ret.op \in {"Transform", "Write"} =>
        /\ \A i \in 1..Len(Objects) : Stored(i) = added[i]
        /\ ret.poly.Color = Objects[ret.recv].Color
        /\ Len(PointsOf(heap, ret.poly)) = Len(Stored(ret.recv).Points)
        /\ \A i \in 1..Len(PointsOf(heap, ret.poly)) :
              PointsOf(heap, ret.poly)[i] =
                 IF ret.op = "Write" /\ i = ret.index
                 THEN Scribble
                 ELSE matrixMultiply(ret.m, Stored(ret.recv).Points[i])

\* the caller overwrote a point of the polygon a 4-point receiver returned
\* for a matrix that moves its points
C7_Witness ==
    /\ ret.op = "Write"
    /\ Len(Stored(ret.recv).Points) = 4
    /\ ret.m = Shear
    /\ PointsOf(heap, ret.poly)[ret.index] # Stored(ret.recv).Points[ret.index]
    /\ matrixMultiply(ret.m, Stored(ret.recv).Points[1])
         # Stored(ret.recv).Points[1]

-----------------------------------------------------------------------------
(* Claims about rotation, checked under SpecRotate *)

Identity == [r \in Axes |-> [c \in Axes |-> IF r = c THEN F(1) ELSE 0]]

\* the matrix product A x B: entry [r][c] = sum over k of A[r][k] * B[k][c]
MatProd(A, B) ==
    [r \in Axes |-> [c \in Axes |->
        FMul(A[r].X, B.X[c]) + FMul(A[r].Y, B.Y[c]) + FMul(A[r].Z, B.Z[c])]]

RECURSIVE ProductOf(_, _)
\* I x h[1] x ... x h[k], multiplied from the left (the product so far is
\* bound to A, so that it is evaluated once)
ProductOf(h, k) ==
    IF k = 0 THEN Identity
    ELSE CHOOSE m \in {MatProd(A, h[k]) : A \in {ProductOf(h, k - 1)}} : TRUE

\* the row vector p times m
RowTimes(p, m) ==
    [c \in Axes |-> FMul(p.X, m.X[c]) + FMul(p.Y, m.Y[c]) + FMul(p.Z, m.Z[c])]

RECURSIVE AppliedInTurn(_, _, _)
\* p after h[1], then h[2], ..., then h[k] were applied to it
AppliedInTurn(h, p, k) ==
    IF k = 0 THEN p
    ELSE CHOOSE q \in {RowTimes(v, h[k]) : v \in {AppliedInTurn(h, p, k - 1)}} :
            TRUE

TestPoints == {Point(0, 100, 0), Point(-50, 0, -50), Point(1, 2, 3),
               Point(-300, 0, 0)}

Abs(a) == IF a < 0 THEN -a ELSE a

Max(S) == CHOOSE a \in S : \A b \in S : a >= b

\* n / Scale, rounded up
Ceil(n) == (n + Scale - 1) \div Scale

\* the largest sum of the absolute values of a column of d
ColumnNorm(d) == Ceil(Max({Abs(d.X[c]) + Abs(d.Y[c]) + Abs(d.Z[c]) : c \in Axes}))

RECURSIVE RoundingBound(_, _, _)
\* a bound on the distance, coordinate by coordinate and in units of
\* 1 / Scale, between p times the stored matrix and p after h[1], ..., h[k]
\* were applied in turn: every product is rounded by at most half a unit
RoundingBound(h, p, k) ==
    IF k = 0 THEN 0
    ELSE (RoundingBound(h, p, k - 1) + 2) * ColumnNorm(h[k])
            + 2 * Ceil(Abs(p.X) + Abs(p.Y) + Abs(p.Z)) + 3

Within(a, b, tol) == \A c \in Axes : Abs(a[c] - b[c]) <= tol

\* C5 as stated: the stored matrix is I x d1 x ... x dk, and transforming a
\* point by it equals applying d1, then d2, ..., then dk to the point.
C5_RotateExact ==
    /\ Matrix = ProductOf(hist, Len(hist))
    /\ \A p \in TestPoints :
          matrixMultiply(Matrix, p) = AppliedInTurn(hist, p, Len(hist))

\* C5, amended: Rotate(delta) replaces the stored matrix M by M x delta, so
\* that after Rotate(d1), ..., Rotate(dk) the stored matrix is
\* I x d1 x ... x dk, multiplied from the left; transforming a point by it
\* agrees with applying d1, then d2, ..., then dk to the point up to the
\* rounding of the products.
C5_Rotate ==
    /\ Matrix = ProductOf(hist, Len(hist))
    /\ \A p \in TestPoints :
          Within(matrixMultiply(Matrix, p),
                 AppliedInTurn(hist, p, Len(hist)),
                 RoundingBound(hist, p, Len(hist)))

\* two rotations that do not commute were applied
C5_Witness ==
    /\ Len(hist) >= 2
    /\ MatProd(hist[1], hist[2]) # MatProd(hist[2], hist[1])
    /\ Matrix # Identity
    /\ ret.op \in {"Rotate", "RotateX", "RotateY", "RotateZ"}

\* C6: RotateX(0), RotateY(0) and RotateZ(0) leave the matrix unchanged: the
\* rotation matrix built for angle 0 is the identity.
C6_RotateZero ==
    [][ret'.op \in {"RotateX", "RotateY", "RotateZ"} /\ ret'.angle = 0
         /\ Len(hist') = Len(hist) + 1
       => ret'.delta = Identity /\ Matrix' = Matrix]_vars

\* a rotation by 0 about Y was applied to a matrix other than the identity
C6_Witness ==
    /\ ret.op = "RotateY"
    /\ ret.angle = 0
    /\ Len(hist) >= 2
    /\ Matrix # Identity
    /\ Matrix = ProductOf(hist, Len(hist) - 1)

-----------------------------------------------------------------------------
(* Claims about Draw, checked under SpecScene *)

RECURSIVE Offset(_)
\* the number of calls Draw makes for the polygons before the i-th
Offset(i) ==
    IF i = 1 THEN 0 ELSE Offset(i - 1) + Len(Stored(i - 1).Points) + 3

\* C2: for every polygon with n stored points Draw emits exactly n + 1
\* vertices: the i-th is the (x, y) of applyMatrix(M, i-th stored point), in
\* stored order, followed by the first transformed point again, then one
\* close-and-fill call with line width 1; no other vertices are emitted.
C2_DrawVertices ==
    ret.op = "Draw" =>
        /\ Len(ret.imd) = Offset(Len(Objects) + 1)
        /\ \A i \in 1..Len(Objects) :
              LET pts == Stored(i).Points
                  n == Len(pts)
                  vertex(k) == <<"Push", matrixMultiply(Matrix, pts[k]).X,
                                 matrixMultiply(Matrix, pts[k]).Y,
                                 Objects[i].Color>>
              IN /\ \A k \in 1..n : ret.imd[Offset(i) + k] = vertex(k)
                 /\ ret.imd[Offset(i) + n + 1] = vertex(1)
                 /\ ret.imd[Offset(i) + n + 2] = <<"Polygon", 1>>
                 /\ ret.imd[Offset(i) + n + 3][1] # "Push"

\* a triangle and a 4-point polygon were drawn under a rotated matrix:
\* 4 + 5 vertices
C2_Witness ==
    /\ ret.op = "Draw"
    /\ Len(Objects) = 2
    /\ Len(Stored(1).Points) = 3
    /\ Len(Stored(2).Points) = 4
    /\ Len(hist) >= 2
    /\ Matrix # Identity
    /\ Cardinality({k \in 1..Len(ret.imd) : ret.imd[k][1] = "Push"}) = 9

RECURSIVE Submissions(_, _, _)
\* the vertex lists the drawing context was told to close, in order
Submissions(calls, i, cur) ==
    IF i > Len(calls) THEN <<>>
    ELSE CASE calls[i][1] = "Push" ->
                 Submissions(calls, i + 1, Append(cur, calls[i]))
           [] calls[i][1] = "Polygon" ->
                 <<cur>> \o Submissions(calls, i + 1, <<>>)
           [] OTHER -> Submissions(calls, i + 1, cur)

\* the closed outline of polygon value p under matrix m
Outline(p, m) ==
    [k \in 1..Len(p.Points) + 1 |->
        LET q == RowTimes(p.Points[IF k <= Len(p.Points) THEN k ELSE 1], m)
        IN <<"Push", q.X, q.Y, p.Color>>]

\* the sort of the last Draw changed the order of the point sets
SortPermuted ==
    /\ ret.op = "Draw"
    /\ ret.polygons # DrawPointSets(Matrix, Objects, heap)

\* C4: Draw submits the polygons in the order of the AddObject calls, for
\* every matrix and polygon list; the depth ordering has no effect on which
\* polygons are drawn, on their order or on any vertex.
C4_DrawInsertionOrder ==
    ret.op = "Draw" =>
        Submissions(ret.imd, 1, <<>>) =
            [i \in 1..Len(added) |-> Outline(added[i], Matrix)]

\* the sort exchanged two polygons of different colours, which were drawn in
\* the order they were added
C4_Witness ==
    /\ SortPermuted
    /\ Len(added) = 2
    /\ added[1].Color # added[2].Color
    /\ Submissions(ret.imd, 1, <<>>)[1][1][4] = added[1].Color

\* C10: Draw leaves the matrix, the polygon list and every stored polygon
\* unchanged; only Rotate changes the matrix, and the polygons in the list are
\* never changed, moved or removed.
C10_DrawFrame ==
    [][/\ ret'.op = "Draw" =>
             /\ Matrix' = Matrix
             /\ Objects' = Objects
             /\ Live(heap', Objects') = Live(heap, Objects)
       /\ Matrix' # Matrix => ret'.op \in {"Rotate", "RotateX", "RotateY", "RotateZ"}
       /\ Len(Objects') >= Len(Objects)
       /\ \A i \in 1..Len(Objects) :
             /\ Objects'[i] = Objects[i]
             /\ PointsOf(heap', Objects'[i]) = PointsOf(heap, Objects[i])
       /\ Objects' # Objects => ret'.op = "AddObject"]_vars

\* a Draw whose sort exchanged two point sets returned, between two rotations,
\* with the stored polygons as they were added
C10_Witness ==
    /\ SortPermuted
    /\ Len(Objects) = 2
    /\ Len(hist) = 1
    /\ \A i \in 1..Len(Objects) : Stored(i) = added[i]

-----------------------------------------------------------------------------
(* Claims about run(), checked under SpecRun *)

\* the centroid of polygon j's own points under the current matrix
TrueCentroid(j) ==
    computeCentroid([k \in 1..Len(Stored(j).Points) |->
                        matrixMultiply(Matrix, Stored(j).Points[k])])

TrueDistance(j) == euclideanDistance(TrueCentroid(j), referencePoint)

Count(seq, x) == Cardinality({k \in 1..Len(seq) : seq[k] = x})

\* C3: the depth ordering computed in Draw is a permutation of the scene's
\* polygons in non-increasing order of the distance from (0, 0, 200) to the
\* centroid of the polygon, the centroid being the mean of exactly that
\* polygon's points under the current matrix.
C3_DepthOrder ==
    ret.op = "Draw" =>
        LET sets == DrawPointSets(Matrix, Objects, heap)
            sorted == ret.polygons
        IN /\ Len(sorted) = Len(sets)
           /\ \A j \in 1..Len(sets) : Count(sorted, sets[j]) = Count(sets, sets[j])
           /\ \A k \in 1..Len(sorted) - 1 :
                 \A i, j \in 1..Len(sets) :
                    sets[i] = sorted[k] /\ sets[j] = sorted[k + 1]
                       => TrueDistance(i) >= TrueDistance(j)

AfterSetup ==
    pc \in {"RotateX", "Closed", "Clear", "Draw", "RotateY", "Update", "Sleep",
            "done"}

PyramidCoordinates == {p1, p2, p3, p4, p5}

\* the scene holds 8 polygons: three black 3-point polygons on the X, Y and Z
\* axis whose first two points coincide, then 5 triangles, a floor and 4
\* sides through the apex, built from the 5 coordinates
SceneShape ==
    /\ Len(Objects) = 8
    /\ \A i \in 1..3 :
          /\ Stored(i).Color = "Black"
          /\ Len(Stored(i).Points) = 3
          /\ Stored(i).Points[1] = Stored(i).Points[2]
          /\ Stored(i).Points[3] # Stored(i).Points[1]
    /\ \A k \in 1..3 : Stored(1).Points[k].Y = 0 /\ Stored(1).Points[k].Z = 0
    /\ \A k \in 1..3 : Stored(2).Points[k].X = 0 /\ Stored(2).Points[k].Z = 0
    /\ \A k \in 1..3 : Stored(3).Points[k].X = 0 /\ Stored(3).Points[k].Y = 0
    /\ \A i \in 4..8 :
          /\ Len(Stored(i).Points) = 3
          /\ \A k \in 1..3 : Stored(i).Points[k] \in PyramidCoordinates
          /\ Cardinality({Stored(i).Points[k] : k \in 1..3}) = 3
    /\ \A k \in 1..3 : Stored(4).Points[k].Y = 0
    /\ \A i \in 5..8 : \E k \in 1..3 : Stored(i).Points[k] = p2
    /\ Cardinality({Stored(i).Points : i \in 4..8}) = 5

\* C8 as stated: the scene has that shape after setup and the 5 pyramid faces
\* have pairwise distinct colours.
C8_SceneDistinctColors ==
    AfterSetup =>
        /\ SceneShape
        /\ \A i, j \in 4..8 : i # j => Stored(i).Color # Stored(j).Color

\* C8, amended: the scene has that shape after setup; the floor is black and
\* the 4 sides are all Aliceblue, so the faces have two colours.
C8_Scene ==
    AfterSetup =>
        /\ SceneShape
        /\ Stored(4).Color = "Black"
        /\ \A i \in 5..8 : Stored(i).Color = "Aliceblue"

\* the setup is over and the loop draws the scene
C8_Witness ==
    /\ pc = "Draw"
    /\ frame = 2
    /\ Len(added) = 8
    /\ \A i \in 1..8 : Stored(i) = added[i]

Steps(i) == {trace[j].step : j \in 1..i}

\* the matrix I x RotX(-0.33) x RotY(0.033)^k
FrameMatrix(k) ==
    ProductOf([j \in 1..k + 1 |-> IF j = 1 THEN RotationX(RunAngleX)
                                           ELSE RotationY(RunAngleY)], k + 1)

\* C9: every iteration performs, in this order, the window-closed check, the
\* clear, Draw, RotateY(0.033) and the present; RotateX(-0.33) is applied once,
\* before the first iteration; the k-th Draw uses I x RotX(-0.33) x
\* RotY(0.033)^k; every Draw follows a clear of the same iteration; nothing
\* happens after a check that observes the window closed.
C9_Loop ==
    \A i \in 1..Len(trace) :
        LET e == trace[i]
            prev == IF i > 1 THEN trace[i - 1].step ELSE "none"
        IN /\ e.step = "RotateX" =>
                 Steps(i - 1) \subseteq {"NewWindow", "AddObject"}
           /\ e.step = "Closed" =>
                 /\ prev \in {"RotateX", "Sleep"}
                 /\ Cardinality({j \in 1..i : trace[j].step = "RotateX"}) = 1
                 /\ e.closed => i = Len(trace) /\ pc = "done"
           /\ e.step = "Clear" => prev = "Closed" /\ ~trace[i - 1].closed
           /\ e.step = "Draw" =>
                 /\ prev = "Clear"
                 /\ e.Matrix = FrameMatrix(
                        Cardinality({j \in 1..i - 1 : trace[j].step = "Draw"}))
           /\ e.step = "RotateY" =>
                 /\ prev = "Draw"
                 /\ i < Len(trace) => trace[i + 1].Matrix = MatProd(e.Matrix, RotationY(RunAngleY))
           /\ e.step = "Update" => prev = "RotateY"
           /\ e.step = "Sleep" => prev = "Update"

\* the window was closed during the fourth iteration, which was completed
\* before the check ended the loop
C9_Witness ==
    /\ pc = "done"
    /\ frame = 4
    /\ Len(trace) > 6
    /\ trace[Len(trace) - 1].step = "Sleep"
    /\ trace[Len(trace) - 3].closed

====
